---- MODULE Spec2Model ----
(***************************************************************************)
(* uhid-rs (src/lib.rs): a Device owns the /dev/uhid channel and a         *)
(* `created` flag; create() and destroy() frame UHID events and hand them  *)
(* to one write() call on the channel.                                     *)
(*                                                                         *)
(* Bytes are naturals 0..255, byte strings are sequences of bytes.         *)
(* Option<T> is a sequence of length 0 (None) or 1 (Some).                 *)
(***************************************************************************)
EXTENDS Integers, Sequences, FiniteSets

VARIABLES
    created,   \* Device.created
    channel,   \* the write() calls uhid_fd has seen: <<[buf, ret]>>, oldest first
    lastCall,  \* the last create/destroy call: its arguments and what it did
    result,    \* what the last call returned
    calls,     \* how many create/destroy calls were made
    epolls,    \* what each EpollDevice::new call so far returned, oldest first
    codec      \* one call of Device::event: its arguments and its output

vars == <<created, channel, lastCall, result, calls, epolls, codec>>

---------------------------------------------------------------------------
(* Bounds of the model *)

\* create/destroy calls made on the Device
MaxCalls == 3

\* EpollDevice::new calls made
MaxNew == 4

\* longest payload handed to Device::event on its own
MaxPayloadLen == 2

---------------------------------------------------------------------------
(* Constants and types of the program *)

HID_MAX_DESCRIPTOR_SIZE == 4096

NAME_SIZE == 128

PHYS_SIZE == 64

UNIQ_SIZE == 64

\* enum Bus, in declaration order; `Bus::X as u16` is the position from 0
Bus == <<"PCI", "ISAPNP", "USB", "HIL", "BLUETOOTH", "VIRTUAL">>

\* enum EventType, in declaration order; `as u32` is the position from 0
EventType ==
    <<"__LegacyCreate", "Destroy", "Start", "Stop", "Open", "Close", "Output",
      "__LoegacyOutputEv", "__LegacyInput", "GetReport", "GetReportReply",
      "Create2", "Input2", "SetReport", "SetReportReply">>

\* variants numbered from 1
Discriminant_FromOne(e, v) == CHOOSE i \in 1..Len(e) : e[i] = v

\* position of variant v in enumeration e, from 0 (the `as` cast of a C-like enum)
Discriminant(e, v) == (CHOOSE i \in 1..Len(e) : e[i] = v) - 1

---------------------------------------------------------------------------
(* Byte-level helpers *)

\* [0; n]
Zeros(n) == [i \in 1..n |-> 0]

\* bincode's encoding of an unsigned integer of w bytes: fixed width, little endian
LittleEndian(v, w) == [i \in 1..w |-> (v \div (256 ^ (i - 1))) % 256]

\* `n as u16`
AsU16(n) == n % 65536

\* field[..src.len()].clone_from_slice(src); create reaches it only with
\* src.len() <= field.len(), past which the slice would panic
CloneFromSlice(fld, src) ==
    [i \in 1..Len(fld) |-> IF i <= Len(src) THEN src[i] ELSE fld[i]]

\* Option::unwrap_or
UnwrapOr(opt, default) == IF Len(opt) = 0 THEN default ELSE opt[1]

---------------------------------------------------------------------------
(* Results: Result<(), String>.  The error strings are told apart by their  *)
(* kind; len and max are the two numbers formatted into the message.        *)

Ok == [kind |-> "Ok", len |-> 0, max |-> 0]

\* Err("device already created")
ErrAlreadyCreated == [kind |-> "AlreadyCreated", len |-> 0, max |-> 0]

\* Err("invalid name length: {} (max: 128)")
ErrInvalidName(name_bytes) ==
    [kind |-> "InvalidName", len |-> Len(name_bytes), max |-> 128]

\* Err("invalid report descriptor length: {} (max: {})"): formats name.len()
ErrInvalidDescriptor(name_bytes) ==
    [kind |-> "InvalidDescriptor", len |-> Len(name_bytes),
     max |-> HID_MAX_DESCRIPTOR_SIZE]

\* Err("failed to send event ({})")
ErrWriteFailed == [kind |-> "WriteFailed", len |-> 0, max |-> 0]

---------------------------------------------------------------------------
(* Device::event and the Create2 request *)

\* the payload left out
Event_PayloadDropped(event_type, data) ==
    LittleEndian(Discriminant(EventType, event_type), 4)

\* Device::event: the u32 discriminant, then the payload when there is one
Event(event_type, data) ==
    LittleEndian(Discriminant(EventType, event_type), 4)
        \o (IF Len(data) = 0 THEN <<>> ELSE data[1])

\* vendor and product swapped
NewCreate2Req_IdsSwapped(vid, pid, rdesc, bus) ==
    [name     |-> Zeros(NAME_SIZE),
     phys     |-> Zeros(PHYS_SIZE),
     uniq     |-> Zeros(UNIQ_SIZE),
     rd_size  |-> AsU16(Len(rdesc)),
     bus      |-> UnwrapOr(bus, Discriminant(Bus, "USB")),
     vendor   |-> pid,
     product  |-> vid,
     version  |-> 0,
     country  |-> 0,
     rd_data  |-> Zeros(HID_MAX_DESCRIPTOR_SIZE)]

\* the Create2Req literal of create, before the two slices are filled in
NewCreate2Req(vid, pid, rdesc, bus) ==
    [name     |-> Zeros(NAME_SIZE),
     phys     |-> Zeros(PHYS_SIZE),
     uniq     |-> Zeros(UNIQ_SIZE),
     rd_size  |-> AsU16(Len(rdesc)),
     bus      |-> UnwrapOr(bus, Discriminant(Bus, "USB")),
     vendor   |-> vid,
     product  |-> pid,
     version  |-> 0,
     country  |-> 0,
     rd_data  |-> Zeros(HID_MAX_DESCRIPTOR_SIZE)]

\* create_req after name and rd_data are populated
FilledCreate2Req(vid, pid, name_bytes, rdesc, bus) ==
    LET req == NewCreate2Req(vid, pid, rdesc, bus)
    IN  [req EXCEPT !.name    = CloneFromSlice(req.name, name_bytes),
                    !.rd_data = CloneFromSlice(req.rd_data, rdesc)]

\* rd_size and bus taken for u32 fields
SerializeCreate2Req_WideShorts(req) ==
    req.name \o req.phys \o req.uniq
        \o LittleEndian(req.rd_size, 4) \o LittleEndian(req.bus, 4)
        \o LittleEndian(req.vendor, 4) \o LittleEndian(req.product, 4)
        \o LittleEndian(req.version, 4) \o LittleEndian(req.country, 4)
        \o req.rd_data

\* bincode::serialize(&create_req): the fields in declaration order, arrays as
\* their bytes with no length prefix, integers fixed width little endian
SerializeCreate2Req(req) ==
    req.name \o req.phys \o req.uniq
        \o LittleEndian(req.rd_size, 2) \o LittleEndian(req.bus, 2)
        \o LittleEndian(req.vendor, 4) \o LittleEndian(req.product, 4)
        \o LittleEndian(req.version, 4) \o LittleEndian(req.country, 4)
        \o req.rd_data

\* req_vec of create
CreateReqVec(vid, pid, name_bytes, rdesc, bus) ==
    Event("Create2",
          <<SerializeCreate2Req(FilledCreate2Req(vid, pid, name_bytes, rdesc, bus))>>)

\* the buffer destroy writes
DestroyReqVec == Event("Destroy", <<>>)

---------------------------------------------------------------------------
(* The channel: File::write returns Ok(n), n <= buf.len(), or Err.          *)
(* ret = -1 stands for Err; a short write is one byte short.                *)

WriteReturns(buf) == {-1, Len(buf) - 1, Len(buf)}

\* match self.uhid_fd.write(..) { Ok(_) => Ok(()), Err(e) => Err(..) }
WriteResult(ret) == IF ret >= 0 THEN Ok ELSE ErrWriteFailed

\* write_all: after a short write the rest is written by a second call
Write_Retrying(buf, ret) ==
    /\ ret \in WriteReturns(buf)
    /\ channel' =
          IF ret >= 0 /\ ret < Len(buf)
          THEN channel \o <<[buf |-> buf, ret |-> ret],
                            [buf |-> SubSeq(buf, ret + 1, Len(buf)),
                             ret |-> Len(buf) - ret]>>
          ELSE Append(channel, [buf |-> buf, ret |-> ret])
    /\ result' = WriteResult(ret)

\* one write() call on uhid_fd
Write(buf, ret) ==
    /\ ret \in WriteReturns(buf)
    /\ channel' = Append(channel, [buf |-> buf, ret |-> ret])
    /\ result' = WriteResult(ret)

---------------------------------------------------------------------------
(* Device::create *)

\* the check left out
IsCreated_Skipped(flag) == FALSE

\* if self.created
IsCreated(flag) == flag

\* the flag never set
CreatedByCreate_NotSet == FALSE

\* self.created = true
CreatedByCreate == TRUE

\* the limit off by one
NameTooLong_OffByOne(name_bytes) == Len(name_bytes) > 129

\* name_bytes.len() > 128
NameTooLong(name_bytes) == Len(name_bytes) > 128

\* the check left out
RdescTooLong_Unchecked(rdesc) == FALSE

\* rdesc.len() > 128
RdescTooLong(rdesc) == Len(rdesc) > 128

\* the descriptor checked before the name
Create_DescriptorCheckedFirst(vid, pid, name_bytes, rdesc, bus) ==
    /\ IF IsCreated(created)
       THEN /\ result' = ErrAlreadyCreated
            /\ UNCHANGED <<created, channel>>
       ELSE /\ created' = CreatedByCreate
            /\ IF RdescTooLong(rdesc)
               THEN /\ result' = ErrInvalidDescriptor(name_bytes)
                    /\ UNCHANGED channel
               ELSE IF NameTooLong(name_bytes)
               THEN /\ result' = ErrInvalidName(name_bytes)
                    /\ UNCHANGED channel
               ELSE LET req_vec == CreateReqVec(vid, pid, name_bytes, rdesc, bus)
                    IN  \E ret \in WriteReturns(req_vec) : Write(req_vec, ret)
    /\ lastCall' = [op |-> "create",
                    args |-> [vid |-> vid, pid |-> pid, name |-> name_bytes,
                              rdesc |-> rdesc, bus |-> bus],
                    wasCreated |-> created,
                    writes |-> Len(channel') - Len(channel)]

Create(vid, pid, name_bytes, rdesc, bus) ==
    /\ IF IsCreated(created)
       THEN /\ result' = ErrAlreadyCreated
            /\ UNCHANGED <<created, channel>>
       ELSE /\ created' = CreatedByCreate
            /\ IF NameTooLong(name_bytes)
               THEN /\ result' = ErrInvalidName(name_bytes)
                    /\ UNCHANGED channel
               ELSE IF RdescTooLong(rdesc)
               THEN /\ result' = ErrInvalidDescriptor(name_bytes)
                    /\ UNCHANGED channel
               ELSE LET req_vec == CreateReqVec(vid, pid, name_bytes, rdesc, bus)
                    IN  \E ret \in WriteReturns(req_vec) : Write(req_vec, ret)
    /\ lastCall' = [op |-> "create",
                    args |-> [vid |-> vid, pid |-> pid, name |-> name_bytes,
                              rdesc |-> rdesc, bus |-> bus],
                    wasCreated |-> created,
                    writes |-> Len(channel') - Len(channel)]

---------------------------------------------------------------------------
(* Device::destroy *)

\* the flag left as it was
CreatedByDestroy_Kept == created

\* self.created = false
CreatedByDestroy == FALSE

Destroy ==
    /\ created' = CreatedByDestroy
    /\ \E ret \in WriteReturns(DestroyReqVec) : Write(DestroyReqVec, ret)
    /\ lastCall' = [op |-> "destroy", args |-> <<>>, wasCreated |-> created,
                    writes |-> Len(channel') - Len(channel)]

---------------------------------------------------------------------------
(* Device::new and EpollDevice::new *)

\* Device::new: the Device, or the error when /dev/uhid cannot be opened
DeviceNew(open_ok) ==
    IF open_ok
    THEN [ok |-> TRUE, dev |-> [uhid_fd |-> "open", created |-> FALSE]]
    ELSE [ok |-> FALSE, err |-> "ChannelOpenFailed"]

\* the (fd, events) pairs EpollDevice::new adds to its epoll instance: it makes
\* no epoll::ctl call
EpollRegistrations == {}

\* EpollDevice::new: Device::new()?, then epoll::create(false).  What it
\* returns: the EpollDevice with the registrations of its epoll instance, or
\* the error (the Device opened before a failed epoll::create is dropped)
EpollDeviceNewReturn(open_ok, epoll_ok) ==
    LET d == DeviceNew(open_ok)
    IN  IF ~d.ok
        THEN [ret |-> d.err, uhid_dev |-> <<>>, epoll_fd |-> <<>>, registered |-> {}]
        ELSE IF ~epoll_ok
        THEN [ret |-> "NotificationSetupFailed", uhid_dev |-> <<>>,
              epoll_fd |-> <<>>, registered |-> {}]
        ELSE [ret |-> "Ok", uhid_dev |-> <<d.dev>>, epoll_fd |-> <<"epoll">>,
              registered |-> EpollRegistrations]

EpollDeviceNew ==
    /\ Len(epolls) < MaxNew
    /\ \E open_ok \in BOOLEAN, epoll_ok \in BOOLEAN :
           epolls' = Append(epolls, EpollDeviceNewReturn(open_ok, epoll_ok))
    /\ UNCHANGED <<created, channel, lastCall, result, calls, codec>>

\* no Device::event call on its own
NoEvent == [event_type |-> "", data |-> <<>>, out |-> <<>>, done |-> FALSE]

---------------------------------------------------------------------------
(* Inputs tried, and the specification *)

\* a name of n bytes (ASCII letters)
NameOf(n) == [i \in 1..n |-> 97 + (i % 26)]

\* a report descriptor of n bytes, none of them zero
RdescOf(n) == [i \in 1..n |-> 1 + (i % 255)]

\* <<vid, pid, name length, descriptor length, bus>> of the create calls tried:
\* the call of tests::create, both lengths at 128, the empty name, and names
\* and descriptors on either side of 128 and of HID_MAX_DESCRIPTOR_SIZE, and a
\* descriptor whose length does not fit a u16
CreateCases ==
    { <<4660, 17185, 20, 55, <<>>>>,
      <<305419896, 1, 128, 128, <<5>>>>,
      <<4660, 17185, 0, 55, <<5>>>>,
      <<4660, 17185, 129, 55, <<>>>>,
      <<4660, 17185, 20, 129, <<>>>>,
      <<4660, 17185, 20, 4096, <<5>>>>,
      <<4660, 17185, 20, 4097, <<>>>>,
      <<4660, 17185, 129, 4097, <<5>>>>,
      <<4660, 17185, 20, 65537, <<>>>> }

CreateArgs ==
    { [vid |-> c[1], pid |-> c[2], name |-> NameOf(c[3]), rdesc |-> RdescOf(c[4]),
       bus |-> c[5]] : c \in CreateCases }

\* Device::new succeeded: the channel is open, nothing registered
Init ==
    /\ created = FALSE
    /\ channel = <<>>
    /\ lastCall = [op |-> "new", args |-> <<>>, wasCreated |-> FALSE, writes |-> 0]
    /\ result = Ok
    /\ calls = 0
    /\ epolls = <<>>
    /\ codec = NoEvent

CreateCall ==
    /\ calls < MaxCalls
    /\ calls' = calls + 1
    /\ \E a \in CreateArgs : Create(a.vid, a.pid, a.name, a.rdesc, a.bus)
    /\ UNCHANGED <<epolls, codec>>

DestroyCall ==
    /\ calls < MaxCalls
    /\ calls' = calls + 1
    /\ Destroy
    /\ UNCHANGED <<epolls, codec>>

Next == CreateCall \/ DestroyCall

Spec == Init /\ [][Next]_vars

\* Device::event called on its own, on every event type and a few payloads
PayloadBytes == {0, 255}

EventInputs ==
    { [event_type |-> EventType[i], data |-> d, out |-> <<>>, done |-> FALSE] :
        i \in 1..Len(EventType),
        d \in {<<>>} \cup { <<p>> : p \in UNION { [1..n -> PayloadBytes] :
                                                   n \in 0..MaxPayloadLen } } }

CodecInit ==
    /\ created = FALSE
    /\ channel = <<>>
    /\ lastCall = [op |-> "new", args |-> <<>>, wasCreated |-> FALSE, writes |-> 0]
    /\ result = Ok
    /\ calls = 0
    /\ epolls = <<>>
    /\ codec \in EventInputs

EventCall ==
    /\ ~codec.done
    /\ codec' = [codec EXCEPT !.out = Event(codec.event_type, codec.data),
                              !.done = TRUE]
    /\ UNCHANGED <<created, channel, lastCall, result, calls, epolls>>

CodecNext == EventCall

CodecSpec == CodecInit /\ [][CodecNext]_vars

\* EpollDevice::new called over and over
EpollNext == EpollDeviceNew

EpollSpec == Init /\ [][EpollNext]_vars

---------------------------------------------------------------------------
(* Vocabulary of the properties *)

Last(s) == s[Len(s)]

\* the u32 an event buffer starts with, read little endian
EventTag(buf) == buf[1] + 256 * buf[2] + 65536 * buf[3] + 16777216 * buf[4]

\* a write() call that returned Ok and carried an event of the given tag
WrittenEvent(w, tag) == w.ret >= 0 /\ Len(w.buf) >= 4 /\ EventTag(w.buf) = tag

\* the step is one call of create, of destroy
CreateStep == calls' = calls + 1 /\ lastCall'.op = "create"

DestroyStep == calls' = calls + 1 /\ lastCall'.op = "destroy"

ValidationErrors == {"InvalidName", "InvalidDescriptor"}

\* a name and a descriptor the documented limits allow
ValidArgs(a) == Len(a.name) <= 128 /\ Len(a.rdesc) <= HID_MAX_DESCRIPTOR_SIZE

---------------------------------------------------------------------------
(* C1: a create call made while the created flag is set returns            *)
(* AlreadyCreated, makes no write call, and leaves the flag and every      *)
(* write the channel has seen so far as they were.                         *)
C1_CreateWhileCreatedRejected ==
    [][ (CreateStep /\ created) =>
            /\ result'.kind = "AlreadyCreated"
            /\ lastCall'.writes = 0
            /\ channel' = channel
            /\ created' = created ]_vars

\* a second create was rejected after a first one wrote its Create2 event
C1_Witness ==
    /\ lastCall.op = "create"
    /\ lastCall.wasCreated
    /\ result.kind = "AlreadyCreated"
    /\ Len(channel) = 1
    /\ WrittenEvent(channel[1], 11)

(* C2: the channel never sees two written Create2 events without a written *)
(* Destroy event between them, whatever writes fail.                       *)
C2_OneLiveDevice ==
    \A i, j \in 1..Len(channel) :
        (i < j /\ WrittenEvent(channel[i], 11) /\ WrittenEvent(channel[j], 11))
            => \E k \in (i + 1)..(j - 1) : WrittenEvent(channel[k], 1)

(* C3: a create rejected by validation on an uninitialized Device leaves   *)
(* the created flag clear, so that a create with a valid name and          *)
(* descriptor that follows it at once is not rejected with AlreadyCreated. *)
C3_ValidationRejectRecoverable ==
    [][ /\ (CreateStep /\ ~created /\ result'.kind \in ValidationErrors)
            => ~created'
        /\ (CreateStep /\ lastCall.op = "create" /\ ~lastCall.wasCreated
                /\ result.kind \in ValidationErrors /\ ValidArgs(lastCall'.args))
            => result'.kind # "AlreadyCreated" ]_vars

(* C4: on an uninitialized Device with a valid name, create with a         *)
(* descriptor of at most 4096 bytes reaches the write and succeeds when    *)
(* the write does; with a longer one it fails with InvalidDescriptor and   *)
(* makes no write call.                                                    *)
C4_DescriptorLimitIs4096 ==
    (lastCall.op = "create" /\ ~lastCall.wasCreated /\ Len(lastCall.args.name) <= 128)
        => IF Len(lastCall.args.rdesc) <= 4096
           THEN /\ lastCall.writes = 1
                /\ result.kind = (IF Last(channel).ret >= 0 THEN "Ok" ELSE "WriteFailed")
           ELSE /\ result.kind = "InvalidDescriptor"
                /\ lastCall.writes = 0

(* C5 as stated: every create with a name longer than 128 bytes fails with *)
(* InvalidName and makes no write call.                                    *)
C5_LongNameAlwaysInvalidName ==
    (lastCall.op = "create" /\ Len(lastCall.args.name) > 128)
        => (result.kind = "InvalidName" /\ lastCall.writes = 0)

(* C5, amended: on an uninitialized Device every create with a name longer *)
(* than 128 bytes fails with InvalidName; on a created Device it fails     *)
(* with AlreadyCreated; in both cases no write call is made.               *)
C5_LongNameRejected ==
    (lastCall.op = "create" /\ Len(lastCall.args.name) > 128)
        => /\ result.kind = (IF lastCall.wasCreated THEN "AlreadyCreated" ELSE "InvalidName")
           /\ result.kind = "InvalidName" => (result.len = Len(lastCall.args.name) /\ result.max = 128)
           /\ lastCall.writes = 0

\* a 129-byte name was rejected on an uninitialized Device
C5_Witness ==
    /\ lastCall.op = "create"
    /\ ~lastCall.wasCreated
    /\ Len(lastCall.args.name) = 129
    /\ result.kind = "InvalidName"
    /\ channel = <<>>

(* C6: on an uninitialized Device, create with a name of at most 128 bytes *)
(* and a valid descriptor reaches the write and succeeds when the write    *)
(* does, and bytes 5..132 of the event written (the name field) are the    *)
(* name followed by zero bytes only.                                       *)
C6_ShortNameCreateSucceeds ==
    (lastCall.op = "create" /\ ~lastCall.wasCreated /\ ValidArgs(lastCall.args))
        => /\ lastCall.writes = 1
           /\ result.kind = (IF Last(channel).ret >= 0 THEN "Ok" ELSE "WriteFailed")
           /\ \A i \in 1..128 :
                  Last(channel).buf[4 + i] =
                      (IF i <= Len(lastCall.args.name) THEN lastCall.args.name[i] ELSE 0)

\* What holds of the name field: every create that reaches the write, which
\* it does only with a descriptor of at most 128 bytes, wrote the name
\* followed by zero bytes into bytes 5..132.
NameFieldOfEveryWrittenCreate ==
    (lastCall.op = "create" /\ lastCall.writes = 1)
        => /\ Len(lastCall.args.name) <= 128
           /\ Len(lastCall.args.rdesc) <= 128
           /\ \A i \in 1..128 :
                  Last(channel).buf[4 + i] =
                      (IF i <= Len(lastCall.args.name) THEN lastCall.args.name[i] ELSE 0)

(* C7: destroy never rejects: from either lifecycle state it clears the    *)
(* created flag and makes its one write call, and when that write returns  *)
(* Ok the buffer written is the four bytes 1,0,0,0: the Destroy            *)
(* discriminant with no payload.                                           *)
C7_DestroyAlwaysRuns ==
    lastCall.op = "destroy"
        => /\ ~created
           /\ lastCall.writes = 1
           /\ result.kind = (IF Last(channel).ret >= 0 THEN "Ok" ELSE "WriteFailed")
           /\ Last(channel).ret >= 0 => Last(channel).buf = <<1, 0, 0, 0>>

\* destroy has run from both states: first uninitialized, then created
C7_Witness ==
    /\ Len(channel) = 3
    /\ WrittenEvent(channel[1], 1)
    /\ WrittenEvent(channel[2], 11)
    /\ lastCall.op = "destroy"
    /\ lastCall.wasCreated
    /\ result.kind = "Ok"
    /\ ~created

(* C8: after every destroy call, whatever its write returned, the created  *)
(* flag is clear, and a create that follows it at once is not rejected     *)
(* with AlreadyCreated; with a name and descriptor that pass create's      *)
(* checks it reaches the write.                                            *)
C8_CreateAfterDestroy ==
    [][ /\ DestroyStep => ~created'
        /\ (CreateStep /\ lastCall.op = "destroy")
            => /\ result'.kind # "AlreadyCreated"
               /\ result'.kind \notin ValidationErrors => lastCall'.writes = 1 ]_vars

\* create, destroy (its write failed), create again: both Create2 events written
C8_Witness ==
    /\ Len(channel) = 3
    /\ WrittenEvent(channel[1], 11)
    /\ channel[2].buf = <<1, 0, 0, 0>>
    /\ channel[2].ret < 0
    /\ WrittenEvent(channel[3], 11)
    /\ lastCall.op = "create"
    /\ result.kind = "Ok"

\* the last write call carried a Create2 event and returned Err, and no
\* destroy has written since
FailedCreatePending ==
    /\ Len(channel) > 0
    /\ Last(channel).ret < 0
    /\ EventTag(Last(channel).buf) = 11

(* C9: a create that passes validation and whose write fails returns       *)
(* WriteFailed and leaves the created flag set; until destroy is called    *)
(* every create is rejected with AlreadyCreated and writes nothing, so the *)
(* channel still holds no written Create2 event from that call.            *)
C9_FailedWriteStaysCreated ==
    [][ /\ (CreateStep /\ lastCall'.writes = 1 /\ Last(channel').ret < 0)
            => (result'.kind = "WriteFailed" /\ created' /\ FailedCreatePending')
        /\ (CreateStep /\ FailedCreatePending)
            => (created /\ result'.kind = "AlreadyCreated" /\ created'
                    /\ channel' = channel) ]_vars

\* the only write the channel saw was create's and failed; the next create
\* was rejected
C9_Witness ==
    /\ Len(channel) = 1
    /\ FailedCreatePending
    /\ lastCall.op = "create"
    /\ lastCall.wasCreated
    /\ result.kind = "AlreadyCreated"
    /\ created

(* C10: a create that returns Ok made exactly one write call, and the      *)
(* buffer it wrote is 4+128+64+64+2+2+4+4+4+4+4096 = 4376 bytes long,      *)
(* whatever the lengths of the name and of the descriptor.                 *)
C10_CreateWrites4376Bytes ==
    (lastCall.op = "create" /\ result.kind = "Ok")
        => /\ lastCall.writes = 1
           /\ Len(Last(channel).buf) = 4 + 128 + 64 + 64 + 2 + 2 + 4 + 4 + 4 + 4 + 4096
           /\ Len(Last(channel).buf) = 4376

\* the call of tests::create on a fresh Device: the channel took all 4376 bytes
C10_Witness ==
    /\ calls = 1
    /\ lastCall.op = "create"
    /\ lastCall.args.vid = 4660
    /\ lastCall.args.pid = 17185
    /\ Len(lastCall.args.name) = 20
    /\ Len(lastCall.args.rdesc) = 55
    /\ result.kind = "Ok"
    /\ Len(channel) = 1
    /\ channel[1].ret = 4376

(* C11: every EpollDevice::new that returned Ok opened a Device, created   *)
(* an epoll instance and registered the Device's channel with it for       *)
(* read-readiness.                                                         *)
C11_ConstructedMeansRegistered ==
    \A i \in 1..Len(epolls) :
        epolls[i].ret = "Ok"
            => /\ Len(epolls[i].uhid_dev) = 1
               /\ epolls[i].uhid_dev[1].uhid_fd = "open"
               /\ Len(epolls[i].epoll_fd) = 1
               /\ <<"uhid_fd", "EPOLLIN">> \in epolls[i].registered

\* What holds: a constructed EpollDevice owns an open Device and an epoll
\* instance with nothing registered.
EpollDeviceOwnsBoth ==
    \A i \in 1..Len(epolls) :
        epolls[i].ret = "Ok"
            => /\ Len(epolls[i].uhid_dev) = 1
               /\ epolls[i].uhid_dev[1].uhid_fd = "open"
               /\ ~epolls[i].uhid_dev[1].created
               /\ Len(epolls[i].epoll_fd) = 1
               /\ epolls[i].registered = {}

(* C12: Device::event is total, and for every event type and every payload, *)
(* given or not, its output is the event type's position in EventType      *)
(* counted from 0 as four bytes (low byte first), then the payload bytes   *)
(* as they are: 4 + payload length bytes; Destroy is 1 and Create2 is 11.  *)
C12_EventIsTagThenPayload ==
    LET payload == IF Len(codec.data) = 0 THEN <<>> ELSE codec.data[1]
    IN  /\ ~codec.done => ENABLED EventCall
        /\ codec.done =>
              /\ Len(codec.out) = 4 + Len(payload)
              /\ \E i \in 1..15 :
                     /\ EventType[i] = codec.event_type
                     /\ SubSeq(codec.out, 1, 4) = <<i - 1, 0, 0, 0>>
              /\ SubSeq(codec.out, 5, Len(codec.out)) = payload
              /\ codec.event_type = "Destroy" => EventTag(codec.out) = 1
              /\ codec.event_type = "Create2" => EventTag(codec.out) = 11

\* a Create2 event with the two-byte payload 0, 255
C12_Witness ==
    /\ codec.done
    /\ codec.event_type = "Create2"
    /\ codec.data = << <<0, 255>> >>
    /\ codec.out = <<11, 0, 0, 0, 0, 255>>

(* C13: create checks in a fixed order: the created flag, then the name    *)
(* length, then the descriptor length.  With the flag set the error is     *)
(* AlreadyCreated whatever the arguments; with it clear and the name over  *)
(* 128 bytes the error is InvalidName (carrying the name's length and 128) *)
(* whatever the descriptor; InvalidDescriptor is returned only once both   *)
(* earlier checks have passed.                                             *)
C13_ChecksInOrder ==
    lastCall.op = "create"
        => /\ lastCall.wasCreated => result.kind = "AlreadyCreated"
           /\ (~lastCall.wasCreated /\ Len(lastCall.args.name) > 128)
                  => result = [kind |-> "InvalidName",
                               len |-> Len(lastCall.args.name), max |-> 128]
           /\ result.kind = "InvalidDescriptor"
                  => (~lastCall.wasCreated /\ Len(lastCall.args.name) <= 128)
           /\ result.kind = "AlreadyCreated" => lastCall.wasCreated
           /\ result.kind = "InvalidName" => ~lastCall.wasCreated

\* name and descriptor both oversized on an uninitialized Device: InvalidName
C13_Witness ==
    /\ lastCall.op = "create"
    /\ ~lastCall.wasCreated
    /\ Len(lastCall.args.name) = 129
    /\ Len(lastCall.args.rdesc) = 4097
    /\ result.kind = "InvalidName"

\* the bytes of buf at offsets off .. off+n-1, offsets counted from 0
Field(buf, off, n) == SubSeq(buf, off + 1, off + n)

\* a little-endian unsigned integer of n bytes at offset off
UIntAt(buf, off, n) ==
    LET b == Field(buf, off, n)
        RECURSIVE From(_)
        From(i) == IF i > n THEN 0 ELSE b[i] + 256 * From(i + 1)
    IN  From(1)

(* C14: in every Create2 event create writes, after the name field: phys   *)
(* and uniq (64 bytes each) are zero, the u16 at offset 260 is the         *)
(* descriptor's length, the u16 at 262 is the bus given, or 2 (USB in the  *)
(* Bus enumeration) when none is, the u32s at 264 and 268 are the vendor   *)
(* and product ids given, the u32s at 272 and 276 (version, country) are   *)
(* 0, and the 4096 bytes from offset 280 are the descriptor followed by    *)
(* zero bytes only.                                                        *)
C14_Create2Fields ==
    (lastCall.op = "create" /\ lastCall.writes = 1)
        => LET buf == Last(channel).buf
               a == lastCall.args
           IN  /\ EventTag(buf) = 11
               /\ Field(buf, 132, 64) = [i \in 1..64 |-> 0]
               /\ Field(buf, 196, 64) = [i \in 1..64 |-> 0]
               /\ UIntAt(buf, 260, 2) = Len(a.rdesc)
               /\ UIntAt(buf, 262, 2) = (IF a.bus = <<>> THEN 2 ELSE a.bus[1])
               /\ UIntAt(buf, 264, 4) = a.vid
               /\ UIntAt(buf, 268, 4) = a.pid
               /\ UIntAt(buf, 272, 4) = 0
               /\ UIntAt(buf, 276, 4) = 0
               /\ Field(buf, 280, 4096) =
                      [i \in 1..4096 |-> IF i <= Len(a.rdesc) THEN a.rdesc[i] ELSE 0]
               /\ Len(buf) = 280 + 4096

\* create wrote an event with no bus given (USB), and another with bus 5
C14_Witness ==
    /\ Len(channel) = 3
    /\ WrittenEvent(channel[1], 11)
    /\ UIntAt(channel[1].buf, 262, 2) = 2
    /\ lastCall.op = "create"
    /\ lastCall.writes = 1
    /\ lastCall.args.bus = <<5>>
    /\ lastCall.args.vid = 305419896
    /\ Len(lastCall.args.rdesc) = 128
    /\ UIntAt(channel[3].buf, 262, 2) = 5
    /\ result.kind = "Ok"

(* C15: a create or destroy call makes at most one write call and never    *)
(* retries: the channel gains no entry or exactly one, the whole event;    *)
(* when that write returns Err the call returns WriteFailed, and when it   *)
(* returns Ok with fewer bytes than the event holds the call returns Ok    *)
(* and the remaining bytes are not written.                                *)
C15_OneWriteNoRetry ==
    [][ (CreateStep \/ DestroyStep) =>
            \/ channel' = channel
            \/ /\ Len(channel') = Len(channel) + 1
               /\ SubSeq(channel', 1, Len(channel)) = channel
               /\ Len(Last(channel').buf) \in {4, 4376}
               /\ Last(channel').ret < 0 => result'.kind = "WriteFailed"
               /\ Last(channel').ret >= 0 => result'.kind = "Ok" ]_vars

\* create's write took 4375 of the 4376 bytes and create returned Ok
C15_Witness ==
    /\ lastCall.op = "create"
    /\ lastCall.writes = 1
    /\ Len(channel) = 1
    /\ Len(channel[1].buf) = 4376
    /\ channel[1].ret = 4375
    /\ result.kind = "Ok"

(* C16: the cast of the descriptor's length to the u16 rd_size never       *)
(* truncates: in every Create2 event create writes, the u16 at offset 260  *)
(* is the descriptor's true length, which is below 65536.                  *)
C16_RdSizeIsTrueLength ==
    (lastCall.op = "create" /\ lastCall.writes = 1)
        => /\ Len(lastCall.args.rdesc) < 65536
           /\ UIntAt(Last(channel).buf, 260, 2) = Len(lastCall.args.rdesc)

\* create wrote an event for the longest descriptor it accepts, 128 bytes
C16_Witness ==
    /\ lastCall.op = "create"
    /\ lastCall.writes = 1
    /\ Len(lastCall.args.rdesc) = 128
    /\ UIntAt(Last(channel).buf, 260, 2) = 128

====
